---- MODULE Spec2Model ----
(***************************************************************************)
(* Model of docs/precision_analysis/precision_loss_analysis.py: the sGHO   *)
(* precision-loss analysis.  The script computes every quantity with       *)
(* Python's decimal.Decimal under a context of 50 significant digits       *)
(* (ROUND_HALF_EVEN).  TLC's integers are 32 bits wide, so a Decimal is    *)
(* modelled as a record [c, e]: c is the coefficient as a sequence of      *)
(* decimal digits, least significant first, and the value is c * 10^e.     *)
(* All values the modelled inputs produce are non-negative.  The canonical *)
(* form has no zero digit at either end of c; zero is [c |-> <<>>, e = 0]. *)
(* Two Decimals are numerically equal iff their canonical records are      *)
(* equal.                                                                  *)
(***************************************************************************)
EXTENDS Integers, Sequences, FiniteSets, TLC

\* decimal.getcontext().prec
PREC == 50

(***************************************************************************)
(* Digit-sequence arithmetic (the coefficient arithmetic of Decimal).      *)
(***************************************************************************)
Max(a, b) == IF a >= b THEN a ELSE b

Min(a, b) == IF a <= b THEN a ELSE b

\* digit i of a little-endian digit sequence, 0 beyond its end
Dig(d, i) == IF i >= 1 /\ i <= Len(d) THEN d[i] ELSE 0

\* k zero digits
Zeros(k) == [i \in 1..k |-> 0]

\* length of d without its most significant zero digits
HighLen(d) ==
    LET nz == {i \in 1..Len(d) : d[i] # 0}
    IN IF nz = {} THEN 0 ELSE CHOOSE i \in nz : \A j \in nz : j <= i

StripHigh(d) == SubSeq(d, 1, HighLen(d))

\* number of least significant zero digits of a non-zero sequence
LowZeros(d) ==
    LET nz == {i \in 1..Len(d) : d[i] # 0}
    IN (CHOOSE i \in nz : \A j \in nz : i <= j) - 1

\* the canonical Decimal with coefficient digits d and exponent e
Canon(d, e) ==
    LET h == StripHigh(d)
        z == LowZeros(h)
    IN IF Len(h) = 0 THEN [c |-> <<>>, e |-> 0]
       ELSE [c |-> SubSeq(h, z + 1, Len(h)), e |-> e + z]

\* the digits of a natural number below 2^31
RECURSIVE NatDigits(_)
NatDigits(n) == IF n = 0 THEN <<>> ELSE <<n % 10>> \o NatDigits(n \div 10)

\* the natural number a short digit sequence denotes
RECURSIVE DigitsNat(_, _)
DigitsNat(d, i) == IF i > Len(d) THEN 0 ELSE d[i] + 10 * DigitsNat(d, i + 1)

\* Carries are propagated over limbs of four digits (base 10^4), which
\* keeps every intermediate value below 2^31.
LIMB == 10000

\* the limbs of a digit sequence
Pack(d) ==
    [j \in 1..((Len(d) + 3) \div 4) |->
        Dig(d, 4 * j - 3) + 10 * Dig(d, 4 * j - 2)
        + 100 * Dig(d, 4 * j - 1) + 1000 * Dig(d, 4 * j)]

\* the digits of a limb sequence
Unpack(l) ==
    [i \in 1..(4 * Len(l)) |->
        LET v == l[((i - 1) \div 4) + 1]
            r == (i - 1) % 4
        IN (IF r = 0 THEN v ELSE IF r = 1 THEN v \div 10
            ELSE IF r = 2 THEN v \div 100 ELSE v \div 1000) % 10]

\* sum of two limb sequences, from limb i up, with the carry into limb i
RECURSIVE AddL(_, _, _, _)
AddL(a, b, i, carry) ==
    IF i > Max(Len(a), Len(b))
    THEN IF carry = 0 THEN <<>> ELSE <<carry>>
    ELSE LET s == Dig(a, i) + Dig(b, i) + carry
         IN IF s >= LIMB THEN <<s - LIMB>> \o AddL(a, b, i + 1, 1)
                         ELSE <<s>> \o AddL(a, b, i + 1, 0)

\* sum of two digit sequences
AddD(a, b) == StripHigh(Unpack(AddL(Pack(a), Pack(b), 1, 0)))

\* difference a - b of two limb sequences, for a >= b, from limb i up, with
\* the borrow out of limb i
RECURSIVE SubL(_, _, _, _)
SubL(a, b, i, borrow) ==
    IF i > Len(a) THEN <<>>
    ELSE LET s == Dig(a, i) - Dig(b, i) - borrow
         IN IF s < 0 THEN <<s + LIMB>> \o SubL(a, b, i + 1, 1)
                     ELSE <<s>> \o SubL(a, b, i + 1, 0)

\* difference a - b of two digit sequences, for a >= b
SubD(a, b) == StripHigh(Unpack(SubL(Pack(a), Pack(b), 1, 0)))

\* comparison of two digit sequences without most significant zeros:
\* -1, 0 or 1
CmpD(a, b) ==
    IF Len(a) < Len(b) THEN -1
    ELSE IF Len(a) > Len(b) THEN 1
    ELSE LET df == {i \in 1..Len(a) : a[i] # b[i]}
         IN IF df = {} THEN 0
            ELSE LET top == CHOOSE i \in df : \A j \in df : j <= i
                 IN IF a[top] < b[top] THEN -1 ELSE 1

\* column k of the schoolbook product: sum of a[i] * b[k + 1 - i] for i in
\* lo..hi, split in halves
RECURSIVE Column(_, _, _, _, _)
Column(a, b, k, lo, hi) ==
    IF lo > hi THEN 0
    ELSE IF lo = hi THEN a[lo] * b[k + 1 - lo]
    ELSE LET mid == (lo + hi) \div 2
         IN Column(a, b, k, lo, mid) + Column(a, b, k, mid + 1, hi)

\* the columns of a product of limb sequences
Columns(a, b) ==
    [k \in 1..(Len(a) + Len(b) - 1) |->
        Column(a, b, k, Max(1, k + 1 - Len(b)), Min(k, Len(a)))]

\* carry propagation over the columns col of a product, from column k up,
\* with the carry into column k
RECURSIVE Carry(_, _, _)
Carry(col, k, carry) ==
    IF k > Len(col)
    THEN IF carry = 0 THEN <<>> ELSE <<carry>>
    ELSE LET s == col[k] + carry
         IN IF s < LIMB THEN <<s>> \o Carry(col, k + 1, 0)
                        ELSE <<s % LIMB>> \o Carry(col, k + 1, s \div LIMB)

\* exact product of two digit sequences
MulD(a, b) ==
    IF Len(a) = 0 \/ Len(b) = 0 THEN <<>>
    ELSE StripHigh(Unpack(Carry(Columns(Pack(a), Pack(b)), 1, 0)))

\* long division of a limb sequence by a natural d (LIMB * d below 2^31),
\* from limb n down with the remainder r < d of the limbs above: quotient
\* limbs q and remainder r
RECURSIVE LongDivL(_, _, _, _)
LongDivL(a, d, n, r) ==
    IF n = 0 \/ r >= d THEN [q |-> <<>>, r |-> r]
    ELSE LET cur  == r * LIMB + a[n]
             rest == LongDivL(a, d, n - 1, cur % d)
         IN [q |-> Append(rest.q, cur \div d), r |-> rest.r]

\* quotient digits q and remainder r of a digit sequence by a natural d
LongDiv(a, d) ==
    LET l  == Pack(a)
        qr == LongDivL(l, d, Len(l), 0)
    IN [q |-> StripHigh(Unpack(qr.q)), r |-> qr.r]

\* d + 1 for a digit sequence
RECURSIVE IncD(_, _)
IncD(d, i) ==
    IF i > Len(d) THEN Append(d, 1)
    ELSE IF d[i] < 9 THEN [d EXCEPT ![i] = d[i] + 1]
    ELSE IncD([d EXCEPT ![i] = 0], i + 1)

\* some digit of d[1..n] is not zero
AnyNonZero(d, n) == \E i \in 1..n : d[i] # 0

(***************************************************************************)
(* Decimal operations under the context prec = p, ROUND_HALF_EVEN.         *)
(***************************************************************************)
\* the exact value d * 10^e (d without most significant zeros; sticky says
\* that a non-zero amount below the last digit of d was already dropped)
\* rounded half-even to p significant digits
RoundTo(d, e, sticky, p) ==
    IF Len(d) <= p THEN Canon(d, e)
    ELSE LET drop == Len(d) - p
             kept == SubSeq(d, drop + 1, Len(d))
             r    == d[drop]
             rest == sticky \/ AnyNonZero(d, drop - 1)
             up   == r > 5 \/ (r = 5 /\ (rest \/ kept[1] % 2 = 1))
         IN Canon(IF up THEN IncD(kept, 1) ELSE kept, e + drop)

Round(d, e, sticky) == RoundTo(d, e, sticky, PREC)

\* Decimal(n) for a natural number n
Dec(n) == Canon(NatDigits(n), 0)

\* Decimal('1eK')
Pow10(k) == [c |-> <<1>>, e |-> k]

DecZero == [c |-> <<>>, e |-> 0]

IsZero(x) == Len(x.c) = 0

\* the coefficient of x at exponent e <= x.e
Align(x, e) == IF IsZero(x) THEN <<>> ELSE Zeros(x.e - e) \o x.c

\* a * b
DecMul(a, b) == Round(MulD(a.c, b.c), a.e + b.e, FALSE)

\* a * b without rounding
DecMulExact(a, b) == Canon(MulD(a.c, b.c), a.e + b.e)

\* a + b
DecAdd(a, b) ==
    LET e == Min(a.e, b.e)
    IN Round(AddD(Align(a, e), Align(b, e)), e, FALSE)

\* -1, 0, 1 as a < b, a = b, a > b
DecCmp(a, b) ==
    LET e == Min(a.e, b.e)
    IN CmpD(Align(a, e), Align(b, e))

DecLeq(a, b) == DecCmp(a, b) <= 0

DecLess(a, b) == DecCmp(a, b) < 0

\* abs(a - b)
DecAbsDiff(a, b) ==
    LET e  == Min(a.e, b.e)
        x  == Align(a, e)
        y  == Align(b, e)
    IN IF CmpD(x, y) >= 0
       THEN Round(SubD(x, y), e, FALSE)
       ELSE Round(SubD(y, x), e, FALSE)

\* a / b, for a divisor whose coefficient is below 2^31 / LIMB
DecDiv(a, b) ==
    IF IsZero(a) THEN DecZero
    ELSE LET d   == DigitsNat(b.c, 1)
             s   == Max(0, PREC + 1 + Len(b.c) - Len(a.c))
             num == Zeros(s) \o a.c
             qr  == LongDiv(num, d)
         IN Round(qr.q, a.e - s - b.e, qr.r # 0)

\* x has no fractional part
IsInteger(x) == x.e >= 0

\* x truncated toward zero to an integer
DecFloor(x) ==
    IF x.e >= 0 THEN x
    ELSE IF Len(x.c) <= -x.e THEN DecZero
    ELSE Canon(SubSeq(x.c, 1 - x.e, Len(x.c)), 0)

\* floor(a / b) for integers a and b = m * 10^k (m below 2^31 / LIMB):
\* floor(floor(a / 10^k) / m)
DecFloorDiv(a, b) ==
    LET num == Align(a, 0)
    IN IF Len(num) <= b.e THEN DecZero
       ELSE Canon(LongDiv(SubSeq(num, b.e + 1, Len(num)), DigitsNat(b.c, 1)).q, 0)

(***************************************************************************)
(* Constants of the script.                                                *)
(***************************************************************************)
\* RAY = Decimal('1e27')
RAY == Pow10(27)

\* SECONDS_IN_YEAR = Decimal('31536000')
SECONDS_IN_YEAR == Dec(31536000)

\* Decimal('10000')
TenThousand == Dec(10000)

One == Dec(1)

\* the rate the modelled contract caps at: 5000 bps = 50% APR (MAX_SAFE_RATE)
MAX_SAFE_RATE == 5000

(***************************************************************************)
(* Bounds of the model: the inputs the functions are applied to.           *)
(***************************************************************************)
\* the largest number of index updates of a cumulative scenario
MaxSteps == 3

\* math.exp works on a double: its result, printed and parsed back, is a
\* Decimal of at most 17 significant digits within FloatSlack units of the
\* 17th digit of e^x
FloatSlack == 4

\* number of terms of the series that evaluates e^x for the envelope
ExpTerms == 10

\* annual rates in basis points; the last one exceeds MAX_SAFE_RATE
Rates == {0, 1000, 1971, 5000, 6000}

\* elapsed times of the single-step analyses, in seconds
Times == {0, 1, 3, 60, 86400, 2592000}

\* total times and update intervals of the cumulative analyses, in seconds
TotalTimes == {0, 3, 8, 86400}

Intervals == {0, 1, 2, 3, 43200, 86400}

(***************************************************************************)
(* The model functions of the script.                                      *)
(***************************************************************************)
\* a variant that divides the basis points with integer division
RatePerSecondIntDiv(rate_bps) ==
    LET rate_decimal == DecFloor(DecDiv(Dec(rate_bps), TenThousand))
    IN DecDiv(rate_decimal, SECONDS_IN_YEAR)

\* the rate per second of calculate_linear_growth_factor and
\* calculate_continuous_compounding_factor
RatePerSecond(rate_bps) ==
    LET rate_decimal == DecDiv(Dec(rate_bps), TenThousand)
    IN DecDiv(rate_decimal, SECONDS_IN_YEAR)

\* a variant that counts one second too many
LinearGrowthFactorOffByOne(rate_bps, time_seconds) ==
    DecAdd(One, DecMul(RatePerSecond(rate_bps), Dec(time_seconds + 1)))

\* calculate_linear_growth_factor(rate_bps, time_seconds)
LinearGrowthFactor(rate_bps, time_seconds) ==
    DecAdd(One, DecMul(RatePerSecond(rate_bps), Dec(time_seconds)))

\* sum of x^n / n! for n up to terms, term being x^n / n! and sum the sum
\* of the terms before it
RECURSIVE ExpSeries(_, _, _, _, _)
ExpSeries(x, n, term, sum, terms) ==
    IF IsZero(term) \/ IsZero(sum) \/ n > terms THEN sum
    ELSE ExpSeries(x, n + 1, DecDiv(DecMul(term, x), Dec(n + 1)), DecAdd(sum, term), terms)

\* the values Decimal(str(math.exp(float(x)))) can take: exp(0.0) is 1.0;
\* otherwise a Decimal of 17 digits within FloatSlack units of its last
\* place of e^x
ExpOutcomes(x) ==
    IF IsZero(x) THEN {One}
    ELSE LET t    == ExpSeries(x, 1, x, One, ExpTerms)
             r    == RoundTo(t.c, t.e, FALSE, 17)
             q    == Len(r.c) + r.e - 17
             unit == Pow10(q)
         IN {DecAdd(r, DecMul(Dec(j), unit)) : j \in 0..FloatSlack}
            \cup {DecAbsDiff(r, DecMul(Dec(j), unit)) : j \in 1..FloatSlack}

\* calculate_continuous_compounding_factor(rate_bps, time_seconds): the
\* set of its possible results
ContinuousCompoundingFactors(rate_bps, time_seconds) ==
    LET exponent == DecMul(RatePerSecond(rate_bps), Dec(time_seconds))
    IN ExpOutcomes(exponent)

\* abs(continuous - linear) / 1 * 10000: the loss as an absolute divergence
PrecisionLossAbs(linear, continuous) ==
    DecMul(DecDiv(DecAbsDiff(continuous, linear), One), TenThousand)

\* calculate_precision_loss(linear_factor, continuous_factor)
PrecisionLoss(linear, continuous) ==
    IF DecLeq(continuous, linear) THEN DecZero
    ELSE LET difference == DecAbsDiff(continuous, linear)
         IN DecMul(DecDiv(difference, One), TenThousand)

\* contract_annual_rate_ray = Decimal(rate_bps) * RAY / Decimal('10000')
ContractAnnualRateRay(rate_bps) == DecDiv(DecMul(Dec(rate_bps), RAY), TenThousand)

\* a variant that truncates the rate per second to an integer
ContractRatePerSecondFloor(rate_bps) ==
    DecFloor(DecDiv(ContractAnnualRateRay(rate_bps), SECONDS_IN_YEAR))

\* contract_rate_per_second = contract_annual_rate_ray / SECONDS_IN_YEAR
ContractRatePerSecond(rate_bps) ==
    DecDiv(ContractAnnualRateRay(rate_bps), SECONDS_IN_YEAR)

\* contract_growth_factor = RAY + contract_rate_per_second * time
ContractGrowthFactor(rate_bps, time_seconds) ==
    LET contract_accumulated_rate ==
            DecMul(ContractRatePerSecond(rate_bps), Dec(time_seconds))
    IN DecAdd(RAY, contract_accumulated_rate)

\* exact_rate_per_second = (rate_bps / 10000) / SECONDS_IN_YEAR * RAY
ExactRatePerSecond(rate_bps) ==
    DecMul(DecDiv(DecDiv(Dec(rate_bps), TenThousand), SECONDS_IN_YEAR), RAY)

\* exact_growth_factor = RAY + exact_rate_per_second * time
ExactGrowthFactor(rate_bps, time_seconds) ==
    LET exact_accumulated_rate ==
            DecMul(ExactRatePerSecond(rate_bps), Dec(time_seconds))
    IN DecAdd(RAY, exact_accumulated_rate)

\* a variant that compounds from RAY instead of the current index
IndexUpdateFromRay(yield_index, growth_factor) ==
    DecDiv(DecMul(RAY, growth_factor), RAY)

\* yield_index = yield_index * growth_factor / RAY
IndexUpdate(yield_index, growth_factor) ==
    DecDiv(DecMul(yield_index, growth_factor), RAY)

\* precision_loss = abs(exact - contract) / RAY * Decimal('10000')
LossBps(exact, contract) ==
    DecMul(DecDiv(DecAbsDiff(exact, contract), RAY), TenThousand)

(***************************************************************************)
(* State: one analysis of the script at a time.                            *)
(***************************************************************************)
VARIABLES
    pc,                        \* "start", "loop", "done" or "error"
    fn,                        \* the analysis that runs
    rate_bps,
    time_seconds,              \* time_seconds, or total_time
    update_interval,
    updates_count,
    updates_done,              \* iterations of the update loop so far
    contract_rate_per_second,
    contract_growth_factor,
    contract_yield_index,
    exact_growth_factor,
    exact_yield_index,
    linear_factor,             \* linear or cumulative linear factor
    continuous_factor,
    precision_loss

vars == <<pc, fn, rate_bps, time_seconds, update_interval, updates_count,
          updates_done, contract_rate_per_second, contract_growth_factor,
          contract_yield_index, exact_growth_factor, exact_yield_index,
          linear_factor, continuous_factor, precision_loss>>

\* a name that is not bound yet
Unset == [c |-> <<>>, e |-> -1]

Init ==
    /\ pc = "start"
    /\ fn = "none"
    /\ rate_bps = 0
    /\ time_seconds = 0
    /\ update_interval = 0
    /\ updates_count = 0
    /\ updates_done = 0
    /\ contract_rate_per_second = Unset
    /\ contract_growth_factor = Unset
    /\ contract_yield_index = Unset
    /\ exact_growth_factor = Unset
    /\ exact_yield_index = Unset
    /\ linear_factor = Unset
    /\ continuous_factor = Unset
    /\ precision_loss = Unset

\* analyze_contract_rate_per_second_calculation: one row of its table
AnalyzeContractRatePerSecond ==
    /\ pc = "start"
    /\ \E r \in Rates :
        /\ rate_bps' = r
        /\ contract_rate_per_second' = ContractRatePerSecond(r)
        /\ precision_loss' = LossBps(ExactRatePerSecond(r), ContractRatePerSecond(r))
    /\ fn' = "rate_per_second"
    /\ pc' = "done"
    /\ UNCHANGED <<time_seconds, update_interval, updates_count, updates_done,
                   contract_growth_factor, contract_yield_index,
                   exact_growth_factor, exact_yield_index, linear_factor,
                   continuous_factor>>

\* analyze_yield_index_update_precision: one scenario
AnalyzeYieldIndexUpdate ==
    /\ pc = "start"
    /\ \E r \in Rates, t \in Times :
        /\ rate_bps' = r
        /\ time_seconds' = t
        /\ contract_rate_per_second' = ContractRatePerSecond(r)
        /\ contract_growth_factor' = ContractGrowthFactor(r, t)
        /\ exact_growth_factor' = ExactGrowthFactor(r, t)
        /\ precision_loss' = LossBps(ExactGrowthFactor(r, t), ContractGrowthFactor(r, t))
    /\ fn' = "index_update"
    /\ pc' = "done"
    /\ UNCHANGED <<update_interval, updates_count, updates_done,
                   contract_yield_index, exact_yield_index, linear_factor,
                   continuous_factor>>

\* a variant that also counts the remainder interval
UpdatesCountCeil(total_time, interval) == (total_time + interval - 1) \div interval

\* a variant that counts one update too many
UpdatesCountInclusive(total_time, interval) == (total_time \div interval) + 1

\* updates_count = total_time // update_interval
UpdatesCount(total_time, interval) == total_time \div interval

\* analyze_cumulative_yield_index_precision: the head of one scenario.
\* total_time // 0 raises ZeroDivisionError.
CumulativeStart ==
    /\ pc = "start"
    /\ \E r \in Rates, t \in TotalTimes, u \in Intervals :
        /\ u # 0 => UpdatesCount(t, u) <= MaxSteps
        /\ rate_bps' = r
        /\ time_seconds' = t
        /\ update_interval' = u
        /\ IF u = 0
           THEN /\ pc' = "error"
                /\ UNCHANGED <<updates_count, contract_yield_index, exact_yield_index>>
           ELSE /\ pc' = "loop"
                /\ updates_count' = UpdatesCount(t, u)
                /\ contract_yield_index' = RAY
                /\ exact_yield_index' = RAY
    /\ fn' = "cumulative"
    /\ UNCHANGED <<updates_done, contract_rate_per_second, contract_growth_factor,
                   exact_growth_factor, linear_factor, continuous_factor,
                   precision_loss>>

\* one iteration of for _ in range(updates_count)
CumulativeStep ==
    /\ pc = "loop"
    /\ fn = "cumulative"
    /\ updates_done < updates_count
    /\ contract_rate_per_second' = ContractRatePerSecond(rate_bps)
    /\ contract_growth_factor' = ContractGrowthFactor(rate_bps, update_interval)
    /\ contract_yield_index' =
           IndexUpdate(contract_yield_index, ContractGrowthFactor(rate_bps, update_interval))
    /\ exact_growth_factor' = ExactGrowthFactor(rate_bps, update_interval)
    /\ exact_yield_index' =
           IndexUpdate(exact_yield_index, ExactGrowthFactor(rate_bps, update_interval))
    /\ updates_done' = updates_done + 1
    /\ UNCHANGED <<pc, fn, rate_bps, time_seconds, update_interval, updates_count,
                   linear_factor, continuous_factor, precision_loss>>

\* the loop is exhausted: cumulative_precision_loss
CumulativeFinish ==
    /\ pc = "loop"
    /\ fn = "cumulative"
    /\ updates_done = updates_count
    /\ precision_loss' = LossBps(exact_yield_index, contract_yield_index)
    /\ pc' = "done"
    /\ UNCHANGED <<fn, rate_bps, time_seconds, update_interval, updates_count,
                   updates_done, contract_rate_per_second, contract_growth_factor,
                   contract_yield_index, exact_growth_factor, exact_yield_index,
                   linear_factor, continuous_factor>>

\* contract_final_index = RAY * contract_growth_factor / RAY
ContractFinalIndex(r, t) == IndexUpdate(RAY, ContractGrowthFactor(r, t))

\* exact_final_index = RAY * exact_growth_factor / RAY
ExactFinalIndex(r, t) == IndexUpdate(RAY, ExactGrowthFactor(r, t))

\* analyze_extreme_yield_index_scenarios: one scenario
AnalyzeExtremeYieldIndex ==
    /\ pc = "start"
    /\ \E r \in Rates, t \in Times :
        /\ rate_bps' = r
        /\ time_seconds' = t
        /\ contract_rate_per_second' = ContractRatePerSecond(r)
        /\ contract_growth_factor' = ContractGrowthFactor(r, t)
        /\ contract_yield_index' = ContractFinalIndex(r, t)
        /\ exact_growth_factor' = ExactGrowthFactor(r, t)
        /\ exact_yield_index' = ExactFinalIndex(r, t)
        /\ precision_loss' = LossBps(ExactFinalIndex(r, t), ContractFinalIndex(r, t))
    /\ fn' = "extreme_index"
    /\ pc' = "done"
    /\ UNCHANGED <<update_interval, updates_count, updates_done, linear_factor,
                   continuous_factor>>

\* analyze_precision_loss_10_percent_apr, analyze_precision_loss_max_rate,
\* analyze_extreme_scenarios, generate_summary_table: one time period
AnalyzePrecisionLoss ==
    /\ pc = "start"
    /\ \E r \in Rates, t \in Times :
        \E c \in ContinuousCompoundingFactors(r, t) :
            /\ rate_bps' = r
            /\ time_seconds' = t
            /\ linear_factor' = LinearGrowthFactor(r, t)
            /\ continuous_factor' = c
            /\ precision_loss' = PrecisionLoss(LinearGrowthFactor(r, t), c)
    /\ fn' = "precision_loss"
    /\ pc' = "done"
    /\ UNCHANGED <<update_interval, updates_count, updates_done,
                   contract_rate_per_second, contract_growth_factor,
                   contract_yield_index, exact_growth_factor, exact_yield_index>>

\* updates_count = total_time // interval if interval > 0 else 1
FrequencyUpdatesCount(total_time, interval) ==
    IF interval > 0 THEN total_time \div interval ELSE 1

\* analyze_update_frequency_impact: the head of one interval
FrequencyStart ==
    /\ pc = "start"
    /\ \E r \in Rates, t \in TotalTimes, u \in Intervals :
        /\ FrequencyUpdatesCount(t, u) <= MaxSteps
        /\ rate_bps' = r
        /\ time_seconds' = t
        /\ update_interval' = u
        /\ updates_count' = FrequencyUpdatesCount(t, u)
    /\ linear_factor' = One
    /\ fn' = "frequency"
    /\ pc' = "loop"
    /\ UNCHANGED <<updates_done, contract_rate_per_second, contract_growth_factor,
                   contract_yield_index, exact_growth_factor, exact_yield_index,
                   continuous_factor, precision_loss>>

\* cumulative_linear_factor *= update_linear_factor
FrequencyStep ==
    /\ pc = "loop"
    /\ fn = "frequency"
    /\ updates_done < updates_count
    /\ linear_factor' = DecMul(linear_factor, LinearGrowthFactor(rate_bps, update_interval))
    /\ updates_done' = updates_done + 1
    /\ UNCHANGED <<pc, fn, rate_bps, time_seconds, update_interval, updates_count,
                   contract_rate_per_second, contract_growth_factor,
                   contract_yield_index, exact_growth_factor, exact_yield_index,
                   continuous_factor, precision_loss>>

\* the loop is exhausted: the continuous factor of the whole period and
\* the precision loss
FrequencyFinish ==
    /\ pc = "loop"
    /\ fn = "frequency"
    /\ updates_done = updates_count
    /\ \E c \in ContinuousCompoundingFactors(rate_bps, time_seconds) :
        /\ continuous_factor' = c
        /\ precision_loss' = PrecisionLoss(linear_factor, c)
    /\ pc' = "done"
    /\ UNCHANGED <<fn, rate_bps, time_seconds, update_interval, updates_count,
                   updates_done, contract_rate_per_second, contract_growth_factor,
                   contract_yield_index, exact_growth_factor, exact_yield_index,
                   linear_factor>>

Next ==
    \/ AnalyzeContractRatePerSecond
    \/ AnalyzeYieldIndexUpdate
    \/ CumulativeStart
    \/ CumulativeStep
    \/ CumulativeFinish
    \/ AnalyzeExtremeYieldIndex
    \/ AnalyzePrecisionLoss
    \/ FrequencyStart
    \/ FrequencyStep
    \/ FrequencyFinish

Spec == Init /\ [][Next]_vars

(***************************************************************************)
(* The arithmetic the modelled contract documents (setTargetRate and       *)
(* _getCurrentYieldIndex): integer arithmetic, every division truncating.  *)
(***************************************************************************)
\* a valid annual rate
ValidRate(r) == r >= 0 /\ r <= MAX_SAFE_RATE

\* annualRateRay = uint256(newRate) * RAY / 10000;
\* ratePerSecond = annualRateRay / 365 days
FixedRatePerSecond(r) ==
    DecFloorDiv(DecFloorDiv(DecMulExact(Dec(r), RAY), TenThousand), SECONDS_IN_YEAR)

\* growthFactor = RAY + ratePerSecond * timeSinceLastUpdate
FixedGrowthFactor(r, t) ==
    DecAdd(RAY, DecMulExact(FixedRatePerSecond(r), Dec(t)))

\* floor(currentIndex * growthFactor / RAY)
FixedIndexUpdate(index, growth_factor) ==
    LET product == DecMulExact(index, growth_factor)
    IN IF IsZero(product) THEN DecZero
       ELSE DecFloor([c |-> product.c, e |-> product.e - 27])

\* the index after n updates by the growth factor gf, starting at RAY
RECURSIVE IndexAfter(_, _)
IndexAfter(gf, n) == IF n = 0 THEN RAY ELSE IndexUpdate(IndexAfter(gf, n - 1), gf)

(***************************************************************************)
(* C1                                                                      *)
(***************************************************************************)
\* C1: for every valid rate, the contract rate per second the script
\* computes is floor(floor(rate_bps * RAY / 10000) / SECONDS_IN_YEAR), an
\* integer.
CE_C1_RatePerSecondTruncated ==
    (pc = "done" /\ fn = "rate_per_second" /\ ValidRate(rate_bps))
        => /\ contract_rate_per_second = FixedRatePerSecond(rate_bps)
           /\ IsInteger(contract_rate_per_second)

(***************************************************************************)
(* C2                                                                      *)
(***************************************************************************)
\* C2: every update of the cumulative loop sets the contract yield index to
\* floor(index * growth_factor / RAY), so the index is always an integer.
CE_C2_IndexUpdateTruncated ==
    [][(fn = "cumulative" /\ updates_done' = updates_done + 1 /\ ValidRate(rate_bps))
          => /\ contract_yield_index' =
                    FixedIndexUpdate(contract_yield_index, contract_growth_factor')
             /\ IsInteger(contract_yield_index')]_vars

(***************************************************************************)
(* C3                                                                      *)
(***************************************************************************)
\* C3: for every valid rate and elapsed time, the contract growth factor is
\* RAY + ratePerSecond * elapsed with the truncated integer ratePerSecond.
CE_C3_GrowthFactorLinear ==
    (pc = "done" /\ fn = "index_update" /\ ValidRate(rate_bps))
        => contract_growth_factor = FixedGrowthFactor(rate_bps, time_seconds)

(***************************************************************************)
(* C4                                                                      *)
(***************************************************************************)
\* the state of a cumulative scenario with a positive interval: the step
\* count is floor(total / interval), no more updates than that are applied,
\* and both indices are RAY updated updates_done times in sequence
C4_Inv ==
    (fn = "cumulative" /\ update_interval > 0)
        => /\ updates_count * update_interval <= time_seconds
           /\ time_seconds < (updates_count + 1) * update_interval
           /\ updates_done <= updates_count
           /\ pc = "done" => updates_done = updates_count
           /\ contract_yield_index =
                  IndexAfter(ContractGrowthFactor(rate_bps, update_interval), updates_done)
           /\ exact_yield_index =
                  IndexAfter(ExactGrowthFactor(rate_bps, update_interval), updates_done)

\* every step of a running cumulative scenario is one more update, or the
\* end of the scenario once all updates are applied
C4_Progress ==
    (fn = "cumulative" /\ pc = "loop")
        => \/ /\ updates_done < updates_count
              /\ updates_done' = updates_done + 1
              /\ pc' = "loop"
           \/ /\ updates_done = updates_count
              /\ pc' = "done"
              /\ UNCHANGED <<updates_done, contract_yield_index, exact_yield_index>>

\* C4: a cumulative scenario with a positive interval starts both indices
\* at RAY, applies exactly floor(total_time / update_interval) sequential
\* updates to each without a reset, applies none for the remainder, and
\* ends when the last of them is applied.
Thm_C4_StepCount == []C4_Inv /\ [][C4_Progress]_vars

\* a finished scenario whose interval does not divide the total time
Wit_C4_RemainderDropped ==
    /\ fn = "cumulative"
    /\ pc = "done"
    /\ rate_bps = 1000
    /\ time_seconds = 8
    /\ update_interval = 3
    /\ updates_done = 2
    /\ updates_count = 2

(***************************************************************************)
(* C5                                                                      *)
(***************************************************************************)
\* C5: the precision loss the evaluator returns is |a - b| / 1 * 10000 for
\* every pair: zero only for equal arguments, not clamped to zero when the
\* first argument exceeds the second.
CE_C5_LossIsAbsolute ==
    (pc = "done" /\ fn \in {"precision_loss", "frequency"})
        => /\ precision_loss = PrecisionLossAbs(linear_factor, continuous_factor)
           /\ (IsZero(precision_loss) <=> linear_factor = continuous_factor)

(***************************************************************************)
(* C6                                                                      *)
(***************************************************************************)
\* C6: a cumulative scenario with update interval 0 is rejected with an
\* error before any index update: no step count is substituted, no update
\* is applied and no result is produced.
CE_C6_ZeroIntervalRejected ==
    (fn \in {"cumulative", "frequency"} /\ update_interval = 0)
        => /\ pc = "error"
           /\ updates_count = 0
           /\ updates_done = 0
           /\ precision_loss = Unset

(***************************************************************************)
(* C7                                                                      *)
(***************************************************************************)
\* C7: for a rate above the cap no rate per second, growth factor or index
\* value is ever produced.
CE_C7_InvalidRateRejected ==
    (fn # "none" /\ ~ValidRate(rate_bps))
        => /\ contract_rate_per_second = Unset
           /\ contract_growth_factor = Unset
           /\ contract_yield_index = Unset
           /\ exact_growth_factor = Unset
           /\ exact_yield_index = Unset
           /\ linear_factor = Unset
           /\ continuous_factor = Unset

(***************************************************************************)
(* C8                                                                      *)
(***************************************************************************)
\* C8: a cumulative scenario whose update interval is the total time (one
\* step) ends with the contract index of the single-step model,
\* RAY * growth_factor / RAY, for the same rate and time.
Thm_C8_OneStepIsSingleStep ==
    (fn = "cumulative" /\ pc = "done" /\ ValidRate(rate_bps)
       /\ time_seconds > 0 /\ update_interval = time_seconds)
        => contract_yield_index = ContractFinalIndex(rate_bps, time_seconds)

\* a finished one-step scenario with a positive rate
Wit_C8_OneStep ==
    /\ fn = "cumulative"
    /\ pc = "done"
    /\ rate_bps = MAX_SAFE_RATE
    /\ time_seconds = 86400
    /\ update_interval = 86400
    /\ updates_done = 1
    /\ contract_yield_index # RAY

(***************************************************************************)
(* C9                                                                      *)
(***************************************************************************)
\* the loss of one unit of the last place of a RAY-scaled value per
\* truncation, in basis points: n * 10000 / RAY
TruncationLossBps(n) == DecMul(DecDiv(Dec(n), RAY), TenThousand)

Thm_C10_ZeroTime ==
    (pc = "done" /\ time_seconds = 0 /\ ValidRate(rate_bps))
        => /\ fn = "index_update" =>
                /\ contract_growth_factor = RAY
                /\ exact_growth_factor = RAY
                /\ precision_loss = DecZero
                /\ LET unit == DecDiv(contract_growth_factor, RAY)
                       lin  == LinearGrowthFactor(rate_bps, time_seconds)
                   IN /\ lin = One
                      /\ PrecisionLoss(unit, lin) = DecZero
                      /\ PrecisionLoss(lin, unit) = DecZero
                      /\ \A c \in ContinuousCompoundingFactors(rate_bps, time_seconds) :
                            /\ PrecisionLoss(unit, c) = DecZero
                            /\ PrecisionLoss(c, unit) = DecZero
           /\ fn = "precision_loss" =>
                /\ linear_factor = One
                /\ continuous_factor = One
                /\ precision_loss = DecZero
                /\ PrecisionLoss(continuous_factor, linear_factor) = DecZero

\* the linear and continuous factors of the highest valid rate over no time
Wit_C10_ZeroTimeAtCap ==
    /\ fn = "precision_loss"
    /\ pc = "done"
    /\ rate_bps = MAX_SAFE_RATE
    /\ time_seconds = 0
    /\ precision_loss = DecZero

(***************************************************************************)
(* C11                                                                     *)
(***************************************************************************)
\* C11: for every positive valid rate and all elapsed times t1 < t2 the
\* linear growth factor at t2 is strictly greater than at t1: the growth
\* factor RAY + rate_per_second * t of the contract path, of the exact
\* path and of the truncated rate per second, and the linear factor
\* 1 + rate * t / SECONDS_IN_YEAR. t2 is the time of the scenario, t1 every
\* shorter sampled time, and the next second after t2 is greater again.
Thm_C11_LinearGrowthMonotone ==
    (pc = "done" /\ ValidRate(rate_bps) /\ rate_bps > 0)
        => /\ fn = "index_update" =>
                /\ \A t1 \in Times :
                      t1 < time_seconds =>
                        /\ DecLess(ContractGrowthFactor(rate_bps, t1),
                                   contract_growth_factor)
                        /\ DecLess(ExactGrowthFactor(rate_bps, t1),
                                   exact_growth_factor)
                        /\ DecLess(FixedGrowthFactor(rate_bps, t1),
                                   FixedGrowthFactor(rate_bps, time_seconds))
                /\ DecLess(contract_growth_factor,
                           ContractGrowthFactor(rate_bps, time_seconds + 1))
                /\ DecLess(exact_growth_factor,
                           ExactGrowthFactor(rate_bps, time_seconds + 1))
                /\ DecLess(FixedGrowthFactor(rate_bps, time_seconds),
                           FixedGrowthFactor(rate_bps, time_seconds + 1))
           /\ fn = "precision_loss" =>
                /\ \A t1 \in Times :
                      t1 < time_seconds =>
                        DecLess(LinearGrowthFactor(rate_bps, t1), linear_factor)
                /\ DecLess(linear_factor,
                           LinearGrowthFactor(rate_bps, time_seconds + 1))

\* the linear factor of a positive rate over a minute, above the factor
\* of one second
Wit_C11_MinuteAboveSecond ==
    /\ fn = "precision_loss"
    /\ pc = "done"
    /\ rate_bps = 1000
    /\ time_seconds = 60
    /\ DecLess(LinearGrowthFactor(rate_bps, 1), linear_factor)
    /\ DecLess(One, LinearGrowthFactor(rate_bps, 1))

(***************************************************************************)
(* C12                                                                     *)
(***************************************************************************)
\* RAY + k * ratePerSecond * updateIntervalSeconds with the truncated rate
\* per second, an integer
FixedLinearIndex(r, k, interval) ==
    DecAdd(RAY, DecMulExact(DecMulExact(Dec(k), FixedRatePerSecond(r)), Dec(interval)))

\* after k updates of a cumulative scenario the contract index is at least
\* RAY, at least RAY + k * ratePerSecond * update_interval, and at least
\* the index of one update over the same elapsed time; the cumulative
\* linear factor of the frequency analysis is at least the linear factor
\* of the elapsed time
C12_Inv ==
    /\ (fn = "cumulative" /\ pc \in {"loop", "done"} /\ rate_bps >= 0)
          => /\ DecLeq(RAY, contract_yield_index)
             /\ DecLeq(FixedLinearIndex(rate_bps, updates_done, update_interval),
                       contract_yield_index)
             /\ DecLeq(ContractFinalIndex(rate_bps, updates_done * update_interval),
                       contract_yield_index)
    /\ (fn = "frequency" /\ pc \in {"loop", "done"} /\ rate_bps >= 0)
          => /\ DecLeq(One, linear_factor)
             /\ DecLeq(LinearGrowthFactor(rate_bps, updates_done * update_interval),
                       linear_factor)

\* an update never lowers the index nor the cumulative linear factor
C12_Step ==
    (pc = "loop" /\ updates_done' = updates_done + 1 /\ rate_bps >= 0)
        => /\ fn = "cumulative" =>
                /\ DecLeq(contract_yield_index, contract_yield_index')
                /\ rate_bps > 0 => DecLess(contract_yield_index, contract_yield_index')
           /\ fn = "frequency" =>
                DecLeq(linear_factor, linear_factor')

\* C12: in a cumulative scenario with a non-negative rate, after every
\* update k the yield index is at least the previous index and at least
\* RAY + k * ratePerSecond * updateIntervalSeconds: the index never
\* decreases, never falls below RAY, and more updates over the same elapsed
\* time never give an index below the index of a single update.
Thm_C12_IndexNeverBelowLinear == []C12_Inv /\ [][C12_Step]_vars

\* three updates of one second at the highest valid rate, above the index
\* of one update of three seconds
Wit_C12_ThreeUpdatesAboveOne ==
    /\ fn = "cumulative"
    /\ rate_bps = MAX_SAFE_RATE
    /\ update_interval = 1
    /\ updates_done = 3
    /\ DecLess(ContractFinalIndex(rate_bps, 3), contract_yield_index)
    /\ DecLess(FixedLinearIndex(rate_bps, 3, 1), contract_yield_index)
====
